---------------------------- MODULE Spec2Model ----------------------------
(***************************************************************************)
(* Pipeline orchestration of Fine_Tuning_llama3.                           *)
(*                                                                         *)
(* The model follows src/orchestration/pipeline_orchestrator.py: the       *)
(* construction of a PipelineOrchestrator (load_config), its four stage    *)
(* operations and run_full_pipeline, executed by an execution context      *)
(* (a thread) that calls them.  The collaborators (collector, document     *)
(* store, QA generator, formatter, benchmark generator, model registry)    *)
(* are modelled by what the orchestrator observes of them: the number of   *)
(* records they return, the point at which one of them raises, and the     *)
(* persistent state they keep (stored documents, stored training pairs,    *)
(* registry file).                                                         *)
(*                                                                         *)
(* It also follows src/orchestration/scheduler.py (PipelineScheduler: the  *)
(* job registry of the schedule library, the polling thread started by     *)
(* start_scheduler and joined by stop_scheduler, the job methods and the   *)
(* manual triggers) and the commands of src/main.py (exit codes, and the   *)
(* start-scheduler command's sequence of calls).                           *)
(***************************************************************************)
EXTENDS Integers, Sequences, FiniteSets, TLC

(***************************************************************************)
(* Bounds of the model.                                                    *)
(***************************************************************************)
\* largest number of documents one collect_domain_data call returns
MaxCollected == 1
\* largest number of documents the document store holds
MaxStored == 1
\* largest number of training pairs the store holds
MaxPairs == 1
\* largest value of int(time.time()), counted from the start of the model
MaxTime == 1

(***************************************************************************)
(* Names.                                                                  *)
(***************************************************************************)
\* the four stage names, in the order run_full_pipeline visits them
StageOrder == <<"data_collection", "training", "evaluation", "deployment">>

Stages == {StageOrder[i] : i \in 1..Len(StageOrder)}

\* the operation of PipelineOrchestrator that runs each stage
StageOp == [data_collection |-> "run_data_collection",
            training        |-> "run_training",
            evaluation      |-> "run_evaluation",
            deployment      |-> "run_deployment"]

\* threads that call the methods of a PipelineScheduler, or the commands of
\* main.py
Users == {"main", "user2"}

\* the Thread objects start_scheduler creates
Pollers == {"poller", "poller2"}

\* execution contexts (threads) that call into the orchestrator
Ctx == Users \cup Pollers

(***************************************************************************)
(* Configuration.  A config maps a stage name to its entry; an entry is    *)
(* modelled by its "enabled" flag and the set of its other keys.           *)
(***************************************************************************)
\* the config before load_config has assigned it
NoConfig == [s \in {} |-> [enabled |-> FALSE, params |-> {}]]

\* the one key of each stage entry that the orchestrator reads besides "enabled"
ReadKey == [data_collection |-> {"max_documents"},
            training        |-> {},
            evaluation      |-> {"benchmark_size"},
            deployment      |-> {"auto_deploy"}]

\* _get_default_config
DefaultConfig ==
    [data_collection |-> [enabled |-> TRUE,
                          params  |-> {"sources", "max_documents"}],
     training        |-> [enabled |-> TRUE,
                          params  |-> {"max_steps", "batch_size", "learning_rate"}],
     evaluation      |-> [enabled |-> TRUE,
                          params  |-> {"benchmark_size"}],
     deployment      |-> [enabled |-> TRUE,
                          params  |-> {"auto_deploy"}]]

\* what json.load returns for a file that parses: load_config does not
\* validate it, so any of the stage entries, and any parameter key of an
\* entry, may be absent
FileConfigs ==
    UNION { { [s \in present |->
                  [enabled |-> s \in en, params |-> ReadKey[s] \cap ks]] :
              en \in SUBSET present,
              ks \in SUBSET (UNION {ReadKey[s] : s \in present}) } :
            present \in SUBSET Stages }

\* self.config[s][k] does not raise KeyError
HasKey(cfg, s, k) == s \in DOMAIN cfg /\ k \in cfg[s].params

\* states of the configuration file at config_path
ConfigFiles ==
    {[kind |-> "missing", content |-> NoConfig],
     [kind |-> "malformed", content |-> NoConfig]}
    \cup {[kind |-> "json", content |-> c] : c \in FileConfigs}

\* load_config: open() raises FileNotFoundError for a missing file, which is
\* caught; json.load raises JSONDecodeError for a malformed one, which is not
load_config(file) ==
    CASE file.kind = "json"      -> [raised |-> FALSE, config |-> file.content]
      [] file.kind = "missing"   -> [raised |-> FALSE, config |-> DefaultConfig]
      [] file.kind = "malformed" -> [raised |-> TRUE,  config |-> NoConfig]

(***************************************************************************)
(* Exceptions.  A stage operation runs its statements in order; the        *)
(* environment chooses the statement (if any) at which a collaborator      *)
(* raises.  "config" is the KeyError of a lookup of a key the loaded       *)
(* config lacks; it is decided by the config, not by the environment.      *)
(***************************************************************************)
\* the statements of each stage operation that call a collaborator, in order
Steps ==
    [data_collection |-> <<"import", "DataCollector", "collect_domain_data">>,
     training        |-> <<"import", "DataStorage", "get_documents",
                           "QAGenerator", "generate_qa_from_documents",
                           "TrainingDataFormatter", "format_for_sft",
                           "create_dataset">>,
     evaluation      |-> <<"import", "DataStorage", "get_training_data",
                           "BenchmarkGenerator", "generate_benchmark_dataset",
                           "Evaluator">>,
     deployment      |-> <<"import", "ModelRegistry", "_load_registry",
                           "_save_registry">>]

\* the points at which a collaborator of stage s can raise
Points(s) == {Steps[s][i] : i \in 1..Len(Steps[s])}

\* position of point p among the statements of stage s; past the end for "none"
Pos(s, p) ==
    IF p \in Points(s)
    THEN CHOOSE i \in 1..Len(Steps[s]) : Steps[s][i] = p
    ELSE Len(Steps[s]) + 1

\* the collaborators called by the first k statements (an import calls none)
Called(s, k) == {Steps[s][i] : i \in 1..k} \ {"import"}

\* the class of the exception raised at point p
ExcClass(p) ==
    CASE p = "import" -> "ImportError"
      [] p = "config" -> "KeyError"
      [] OTHER        -> "RuntimeError"

CatchesLookupErrorsOnly(cls) == cls \in {"KeyError"}

\* `except Exception`: every class raised here derives from Exception
Catches(cls) == cls \in {"ImportError", "KeyError", "RuntimeError"}

\* the metric keys of the mapping run_evaluation builds
ResultKeys == {"rouge1", "rouge2", "rougeL", "bleu"}

(***************************************************************************)
(* The stage operations as functions of what the environment does: the     *)
(* loaded config cfg, the point p at which a collaborator raises ("none"   *)
(* when none does) and the records the collaborators hold or return.       *)
(* An outcome records the value the operation computes (ok: the truth      *)
(* value of the result; metrics: the keys of the mapping run_evaluation    *)
(* returns), the exception that ended the try block, the collaborators     *)
(* called, the length of the list obtained from the collaborator (-1 when  *)
(* none was obtained) and the number of documents added to the store.      *)
(***************************************************************************)
\* the try block of stage s ended by an exception at point p, after the
\* first k statements were started and a list of length n was obtained
Failure(s, p, k, n) ==
    [ok |-> FALSE, metrics |-> {}, exc |-> p, invoked |-> Called(s, k),
     fetched |-> n, stored |-> 0]

\* run_data_collection; n is the number of documents collect_domain_data
\* returns (and has stored)
run_data_collection(cfg, p, n) ==
    LET s == "data_collection"
        k == Pos(s, p)
    IN  IF k <= 2 THEN Failure(s, p, k, -1)
        ELSE IF ~HasKey(cfg, s, "max_documents")
             THEN Failure(s, "config", 2, -1)
        ELSE IF k = 3 THEN Failure(s, p, k, -1)
        ELSE [ok |-> TRUE, metrics |-> {}, exc |-> "none",
              invoked |-> Called(s, 3), fetched |-> n, stored |-> n]

run_training_unchecked(p, ndocs) ==
    LET s == "training"
        k == Pos(s, p)
    IN  IF k <= 3 THEN Failure(s, p, k, -1)
        ELSE IF k <= 8 THEN Failure(s, p, k, ndocs)
        ELSE [ok |-> TRUE, metrics |-> {}, exc |-> "none",
              invoked |-> Called(s, 8), fetched |-> ndocs, stored |-> 0]

\* run_training; ndocs is the number of documents in the store
run_training(p, ndocs) ==
    LET s == "training"
        k == Pos(s, p)
    IN  IF k <= 3 THEN Failure(s, p, k, -1)
        ELSE IF ndocs = 0
             THEN [ok |-> FALSE, metrics |-> {}, exc |-> "none",
                   invoked |-> Called(s, 3), fetched |-> 0, stored |-> 0]
        ELSE IF k <= 8 THEN Failure(s, p, k, ndocs)
        ELSE [ok |-> TRUE, metrics |-> {}, exc |-> "none",
              invoked |-> Called(s, 8), fetched |-> ndocs, stored |-> 0]

run_evaluation_unchecked(cfg, p, npairs) ==
    LET s == "evaluation"
        k == Pos(s, p)
    IN  IF k <= 3 THEN Failure(s, p, k, -1)
        ELSE IF k = 4 THEN Failure(s, p, k, npairs)
        ELSE IF ~HasKey(cfg, s, "benchmark_size")
             THEN Failure(s, "config", 4, npairs)
        ELSE IF k <= 6 THEN Failure(s, p, k, npairs)
        ELSE [ok |-> TRUE, metrics |-> ResultKeys, exc |-> "none",
              invoked |-> Called(s, 6), fetched |-> npairs, stored |-> 0]

\* run_evaluation; npairs is the number of training pairs in the store
run_evaluation(cfg, p, npairs) ==
    LET s == "evaluation"
        k == Pos(s, p)
    IN  IF k <= 3 THEN Failure(s, p, k, -1)
        ELSE IF npairs = 0
             THEN [ok |-> FALSE, metrics |-> {}, exc |-> "none",
                   invoked |-> Called(s, 3), fetched |-> 0, stored |-> 0]
        ELSE IF k = 4 THEN Failure(s, p, k, npairs)
        ELSE IF ~HasKey(cfg, s, "benchmark_size")
             THEN Failure(s, "config", 4, npairs)
        ELSE IF k <= 6 THEN Failure(s, p, k, npairs)
        ELSE [ok |-> TRUE, metrics |-> ResultKeys, exc |-> "none",
              invoked |-> Called(s, 6), fetched |-> npairs, stored |-> 0]

\* run_deployment up to the read of the registry file in register_model
run_deployment_load(p) ==
    LET s == "deployment"
        k == Pos(s, p)
    IN  IF k <= 3 THEN Failure(s, p, k, -1)
        ELSE [ok |-> TRUE, metrics |-> {}, exc |-> "none",
              invoked |-> Called(s, 3), fetched |-> -1, stored |-> 0]

\* run_deployment from the write of the registry file on; written tells
\* whether _save_registry wrote the file
run_deployment_save(cfg, p) ==
    LET s == "deployment"
        k == Pos(s, p)
    IN  IF k = 4 THEN Failure(s, p, k, -1) @@ [written |-> FALSE]
        ELSE IF ~HasKey(cfg, s, "auto_deploy")
             THEN Failure(s, "config", 4, -1) @@ [written |-> TRUE]
        ELSE [ok |-> TRUE, metrics |-> {}, exc |-> "none",
              invoked |-> Called(s, 4), fetched |-> -1, stored |-> 0,
              written |-> TRUE]

(***************************************************************************)
(* run_full_pipeline: the report and the guards of its four stages.        *)
(***************************************************************************)
\* pipeline_results as initialised at the start of run_full_pipeline
InitialReport ==
    [data_collection |-> FALSE, training |-> FALSE, evaluation |-> {},
     deployment |-> FALSE, success |-> FALSE]

GuardEnabledOnly(s, cfg, rep) == cfg[s].enabled

GuardDeploymentOnTraining(s, cfg, rep) ==
    CASE s = "data_collection" -> cfg[s].enabled
      [] s = "training"        -> cfg[s].enabled /\ rep.data_collection
      [] s = "evaluation"      -> cfg[s].enabled /\ rep.training
      [] s = "deployment"      -> cfg[s].enabled /\ rep.training

GuardTrainingIgnoresEnabled(s, cfg, rep) ==
    CASE s = "data_collection" -> cfg[s].enabled
      [] s = "training"        -> rep.data_collection
      [] s = "evaluation"      -> cfg[s].enabled /\ rep.training
      [] s = "deployment"      -> cfg[s].enabled /\ rep.evaluation # {}

GuardEvaluationIgnoresTraining(s, cfg, rep) ==
    CASE s = "data_collection" -> cfg[s].enabled
      [] s = "training"        -> cfg[s].enabled /\ rep.data_collection
      [] s = "evaluation"      -> cfg[s].enabled
      [] s = "deployment"      -> cfg[s].enabled /\ rep.evaluation # {}

\* the condition of the if statement in front of stage s
Guard(s, cfg, rep) ==
    CASE s = "data_collection" -> cfg[s].enabled
      [] s = "training"        -> cfg[s].enabled /\ rep.data_collection
      [] s = "evaluation"      -> cfg[s].enabled /\ rep.training
      [] s = "deployment"      -> cfg[s].enabled /\ rep.evaluation # {}

SuccessWithoutDeployment(rep) ==
    rep.data_collection /\ rep.training /\ rep.evaluation # {}

\* pipeline_results["success"]
Success(rep) ==
    /\ rep.data_collection
    /\ rep.training
    /\ rep.evaluation # {}
    /\ rep.deployment

(***************************************************************************)
(* State.                                                                  *)
(***************************************************************************)
VARIABLES
    cfgFile,    \* the configuration file at config_path
    orch,       \* the PipelineOrchestrator: construction state and self.config
    docs,       \* number of rows of the documents table
    pairs,      \* number of rows of the training_data table
    registry,   \* versions registered in the registry file
    now,        \* int(time.time())
    pc,         \* per context: position in the operation it executes
    op,         \* per context: the operation it was asked to execute
    report,     \* per context: pipeline_results of run_full_pipeline
    ret,        \* per context: value returned by the latest stage operation
    trace,      \* per context: stage operations attempted in this execution,
                \* each with its outcome: done, the truth value of its result,
                \* the exception that ended its try block, the length of the
                \* list it obtained
    invoked,    \* per context: collaborators called by the latest stage operation
    loaded,     \* per context: registry as read by register_model
    version     \* per context: version number passed to register_model

VARIABLES
    running,          \* self.running of the PipelineScheduler
    scheduler_thread, \* self.scheduler_thread: a Thread object, or "None"
    thread,           \* per Thread object: its position in _run_scheduler
    pending,          \* per Thread object: the runnable jobs run_pending has
                      \* still to run in this pass
    cur,              \* per Thread object: the job it is running (0: none)
    jobs,             \* schedule.jobs, the job registry of the process
    at,               \* per user thread: position in the scheduler method
                      \* (or main.py command) it executes
    joining,          \* per user thread: the Thread object it joins
    result,           \* per user thread: the record its latest manual
                      \* trigger returned
    seen,             \* per user thread: the Thread objects that were alive
                      \* when its stop_scheduler call began and have not ended
    inflight,         \* per user thread: the Thread objects still running the
                      \* job they were running when its stop_scheduler began
    orphans,          \* the Thread objects that were alive when a
                      \* stop_scheduler call began and still are, although the
                      \* call has returned and start_scheduler was not called
                      \* since
    completed,        \* number of trigger_manual_training calls that returned
    exit_code,        \* exit status of the latest main.py command (-1: none)
    command           \* position of the main thread in the start-scheduler
                      \* command of main.py ("any": it runs another program)

VARIABLES
    peer,       \* a second PipelineScheduler of the process: its self.running
                \* and self.scheduler_thread
    listed      \* the list the latest get_scheduled_jobs call returned, with
                \* the instance it was called on ("None": not called yet)

VARIABLES
    seen_hashes,    \* self.seen_hashes of a DataCleaner
    called,         \* the texts is_duplicate was called with
    dup,            \* the latest is_duplicate call: its text, whether it was
                    \* the first call with that text, and its result
    registry_file,  \* registry.json as the callers of a ModelRegistry see
                    \* it: truncated, or a mapping from (name, version) to
                    \* the record registered (registry, above, is what
                    \* run_deployment sees of it: the versions of its model)
    regs,           \* per (name, version): the path and metadata of the
                    \* latest register_model call that returned an id
    got             \* the latest register_model or get_model call: its
                    \* arguments, whether it returned or raised, its result

VARIABLES
    registered  \* the register_model calls that returned an id: the version
                \* each registered and the result of the run_deployment that
                \* made the call

\* what no operation of the orchestrator or of the scheduler writes
classes == <<seen_hashes, called, dup, registry_file, regs, got>>
aside == <<cfgFile, peer, listed, classes>>
store == <<aside, orch, docs, pairs, registry, registered, now>>
lifecycle == <<running, scheduler_thread, thread, pending, cur, at, joining,
               seen, inflight, orphans>>
manual == <<result, completed>>
sched == <<lifecycle, jobs, manual>>
process == <<exit_code, command>>
shared == <<store, sched, process>>
locals == <<pc, op, report, ret, trace, invoked, loaded, version>>
vars == <<shared, locals>>

NoReturn == [ok |-> FALSE, metrics |-> {}]

\* the instances of PipelineScheduler: the one main.py constructs and a
\* second one of the same process
Instances == {"scheduler", "peer"}

\* the function with the empty domain: an empty dict
Empty == [x \in {} |-> x]

\* no is_duplicate, register_model or get_model call was made
NoCall == [call |-> "none"]

\* DataCleaner.__init__; ModelRegistry.__init__ on a directory without
\* registry.json, which writes the empty mapping (lines 15-16)
InitClasses ==
    /\ seen_hashes = {}
    /\ called = {}
    /\ dup = NoCall
    /\ registry_file = [kind |-> "json", content |-> Empty]
    /\ regs = Empty
    /\ got = NoCall

\* PipelineScheduler.__init__ of the second instance; get_scheduled_jobs was
\* not called
InitAside ==
    /\ peer = [running |-> FALSE, scheduler_thread |-> "None"]
    /\ listed = [instance |-> "None", jobs |-> <<>>]
    /\ InitClasses

\* no context executes an orchestrator operation
InitLocals ==
    /\ pc = [c \in Ctx |-> "idle"]
    /\ op = [c \in Ctx |-> "none"]
    /\ report = [c \in Ctx |-> InitialReport]
    /\ ret = [c \in Ctx |-> NoReturn]
    /\ trace = [c \in Ctx |-> <<>>]
    /\ invoked = [c \in Ctx |-> {}]
    /\ loaded = [c \in Ctx |-> {}]
    /\ version = [c \in Ctx |-> -1]

\* the record a manual trigger has not returned yet
NoResult == [returned |-> FALSE, keys |-> {}, success |-> FALSE]

\* no command of main.py has exited; the threads are not bound to the
\* start-scheduler command
InitProcess ==
    /\ exit_code = -1
    /\ command = "any"

\* PipelineScheduler.__init__: not running, no thread; no user thread is
\* inside a method
InitScheduler ==
    /\ running = FALSE
    /\ scheduler_thread = "None"
    /\ thread = [t \in Pollers |-> "none"]
    /\ pending = [t \in Pollers |-> {}]
    /\ cur = [t \in Pollers |-> 0]
    /\ at = [u \in Users |-> "idle"]
    /\ joining = [u \in Users |-> "None"]
    /\ result = [u \in Users |-> NoResult]
    /\ seen = [u \in Users |-> {}]
    /\ inflight = [u \in Users |-> {}]
    /\ orphans = {}
    /\ completed = 0

Init ==
    /\ cfgFile \in ConfigFiles
    /\ orch = [state |-> "none", config |-> NoConfig]
    /\ docs \in 0..MaxStored
    /\ pairs \in 0..MaxPairs
    /\ registry = {}
    /\ registered = {}
    /\ now = 0
    /\ InitAside
    /\ InitLocals
    /\ InitScheduler
    /\ jobs = <<>>
    /\ InitProcess

(***************************************************************************)
(* Construction.                                                           *)
(***************************************************************************)
\* PipelineOrchestrator.__init__: load_config either assigns self.config or
\* raises out of the constructor
Construct ==
    /\ orch.state = "none"
    /\ LET r == load_config(cfgFile)
       IN  orch' = [state  |-> IF r.raised THEN "raised" ELSE "ready",
                    config |-> r.config]
    /\ exit_code' = IF load_config(cfgFile).raised THEN 1 ELSE exit_code
    /\ UNCHANGED <<aside, docs, pairs, registry, registered, now, sched, command,
                   locals>>

(***************************************************************************)
(* Calls.                                                                  *)
(***************************************************************************)
\* the line of run_full_pipeline reached after the statement of stage s
LineAfter == [data_collection |-> "l173", training |-> "l176",
              evaluation |-> "l179", deployment |-> "l182"]

\* the position at which the body of stage s starts
Entry == [data_collection |-> "data_collection", training |-> "training",
          evaluation |-> "evaluation", deployment |-> "deploy_load"]

\* context c enters the body of stage operation s
Enter(c, s) ==
    /\ pc' = [pc EXCEPT ![c] = Entry[s]]
    /\ trace' = [trace EXCEPT
                   ![c] = Append(@, [stage |-> s, done |-> FALSE, ok |-> FALSE,
                                     exc |-> "none", fetched |-> -1])]
    /\ invoked' = [invoked EXCEPT ![c] = {}]

\* a command of main.py (a process that has not exited yet) invokes
\* run_full_pipeline on the constructed orchestrator
CallFullPipeline(c) ==
    /\ orch.state = "ready"
    /\ pc[c] = "idle"
    /\ op' = [op EXCEPT ![c] = "run_full_pipeline"]
    /\ pc' = [pc EXCEPT ![c] = "l170"]
    /\ report' = [report EXCEPT ![c] = InitialReport]
    /\ exit_code' = -1
    /\ UNCHANGED <<store, sched, command, ret, trace, invoked, loaded, version>>

\* a command of main.py invokes one stage operation directly
CallStage(c, s) ==
    /\ orch.state = "ready"
    /\ pc[c] = "idle"
    /\ op' = [op EXCEPT ![c] = StageOp[s]]
    /\ Enter(c, s)
    /\ exit_code' = -1
    /\ UNCHANGED <<store, sched, command, report, ret, loaded, version>>

\* the if statement in front of stage s in run_full_pipeline, at line; the
\* lookup self.config[s]["enabled"] comes first in its condition and is
\* outside any try block: its KeyError leaves run_full_pipeline
GuardedCall(c, line, s) ==
    /\ pc[c] = line
    /\ IF s \notin DOMAIN orch.config
       THEN /\ pc' = [pc EXCEPT ![c] = "raised"]
            /\ UNCHANGED <<trace, invoked>>
       ELSE IF Guard(s, orch.config, report[c])
       THEN Enter(c, s)
       ELSE /\ pc' = [pc EXCEPT ![c] = LineAfter[s]]
            /\ UNCHANGED <<trace, invoked>>
    /\ UNCHANGED <<shared, op, report, ret, loaded, version>>

Line170(c) == GuardedCall(c, "l170", "data_collection")
Line173(c) == GuardedCall(c, "l173", "training")
Line176(c) == GuardedCall(c, "l176", "evaluation")
Line179(c) == GuardedCall(c, "l179", "deployment")

\* lines 182-191: success is computed and the report returned
Finish(c) ==
    /\ pc[c] = "l182"
    /\ report' = [report EXCEPT ![c].success = Success(report[c])]
    /\ pc' = [pc EXCEPT ![c] = "returned"]
    /\ UNCHANGED <<shared, op, ret, trace, invoked, loaded, version>>

\* stage operation s of context c ends with outcome r: the except clause
\* turns an exception it catches into the falsy result, the result goes to
\* the caller (run_full_pipeline stores it in the report)
EndStage(c, s, r) ==
    /\ trace' = [trace EXCEPT
                   ![c][Len(trace[c])] = [stage |-> s, done |-> TRUE, ok |-> r.ok,
                                          exc |-> r.exc, fetched |-> r.fetched]]
    /\ invoked' = [invoked EXCEPT ![c] = r.invoked]
    /\ IF r.exc # "none" /\ ~Catches(ExcClass(r.exc))
       THEN /\ pc' = [pc EXCEPT ![c] = "stage_raised"]
            /\ UNCHANGED <<ret, report>>
       ELSE /\ ret' = [ret EXCEPT ![c] = [ok |-> r.ok, metrics |-> r.metrics]]
            /\ IF op[c] = "run_full_pipeline"
               THEN /\ pc' = [pc EXCEPT ![c] = LineAfter[s]]
                    /\ report' = [report EXCEPT
                         ![c][s] = IF s = "evaluation" THEN r.metrics ELSE r.ok]
               ELSE /\ pc' = [pc EXCEPT ![c] = "returned"]
                    /\ UNCHANGED report

\* the points the environment can choose for stage s, "none" included
Choices(s) == Points(s) \cup {"none"}

\* body of run_data_collection
Collect(c) ==
    /\ pc[c] = "data_collection"
    /\ \E p \in Choices("data_collection") :
       \E n \in 0..MaxCollected :
          LET r == run_data_collection(orch.config, p, n)
          IN  /\ docs + r.stored <= MaxStored
              /\ docs' = docs + r.stored
              /\ EndStage(c, "data_collection", r)
    /\ UNCHANGED <<aside, orch, pairs, registry, registered, now, sched, process, op,
                   loaded, version>>

\* body of run_training
Train(c) ==
    /\ pc[c] = "training"
    /\ \E p \in Choices("training") :
          EndStage(c, "training", run_training(p, docs))
    /\ UNCHANGED <<shared, op, loaded, version>>

\* body of run_evaluation
Evaluate(c) ==
    /\ pc[c] = "evaluation"
    /\ \E p \in Choices("evaluation") :
          EndStage(c, "evaluation", run_evaluation(orch.config, p, pairs))
    /\ UNCHANGED <<shared, op, loaded, version>>

\* run_deployment up to _load_registry: the version is computed from the
\* clock, then register_model reads the registry file
DeployLoad(c) ==
    /\ pc[c] = "deploy_load"
    /\ \E p \in {q \in Choices("deployment") : q # "_save_registry"} :
          LET r == run_deployment_load(p)
          IN  IF r.exc = "none"
              THEN /\ pc' = [pc EXCEPT ![c] = "deploy_save"]
                   /\ version' = [version EXCEPT ![c] = now]
                   /\ loaded' = [loaded EXCEPT ![c] = registry]
                   /\ invoked' = [invoked EXCEPT ![c] = r.invoked]
                   /\ UNCHANGED <<trace, ret, report>>
              ELSE /\ EndStage(c, "deployment", r)
                   /\ UNCHANGED <<version, loaded>>
    /\ UNCHANGED <<shared, op>>

\* run_deployment from _save_registry on: the registry read before, with the
\* new version added, replaces the registry file
DeploySave(c) ==
    /\ pc[c] = "deploy_save"
    /\ \E p \in {"_save_registry", "none"} :
          LET r == run_deployment_save(orch.config, p)
          IN  /\ registry' = IF r.written
                             THEN loaded[c] \cup {version[c]}
                             ELSE registry
              /\ registered' = IF r.written
                               THEN registered \cup
                                    {[version |-> version[c], ok |-> r.ok]}
                               ELSE registered
              /\ EndStage(c, "deployment", r)
    /\ UNCHANGED <<aside, orch, docs, pairs, now, sched, process, op,
                   loaded, version>>

ExitCodeIgnoringExceptions(p, o, r, rep) ==
    IF p # "returned" THEN 0
    ELSE IF o = "run_full_pipeline" THEN (IF rep.success THEN 0 ELSE 1)
    ELSE IF r.ok THEN 0 ELSE 1

\* main.py: the exit status of a command whose orchestrator operation o
\* ended at position p with result r (run_full_pipeline: with report rep).
\* The command calls sys.exit(1) on a falsy result and returns otherwise;
\* an exception of the operation reaches `except Exception` of main, which
\* calls sys.exit(1)
ExitCode(p, o, r, rep) ==
    IF p # "returned" THEN 1
    ELSE IF o = "run_full_pipeline" THEN (IF rep.success THEN 0 ELSE 1)
    ELSE IF r.ok THEN 0 ELSE 1

\* the command takes the result, or the exception, of the operation and the
\* process exits; the context is free for the next command
Return(c) ==
    /\ pc[c] \in {"returned", "raised", "stage_raised"}
    /\ pc' = [pc EXCEPT ![c] = "idle"]
    /\ op' = [op EXCEPT ![c] = "none"]
    /\ report' = [report EXCEPT ![c] = InitialReport]
    /\ ret' = [ret EXCEPT ![c] = NoReturn]
    /\ trace' = [trace EXCEPT ![c] = <<>>]
    /\ invoked' = [invoked EXCEPT ![c] = {}]
    /\ loaded' = [loaded EXCEPT ![c] = {}]
    /\ version' = [version EXCEPT ![c] = -1]
    /\ exit_code' = ExitCode(pc[c], op[c], ret[c], report[c])
    /\ UNCHANGED <<store, sched, command>>

\* a second passes
Tick ==
    /\ now < MaxTime
    /\ now' = now + 1
    /\ UNCHANGED <<aside, orch, docs, pairs, registry, registered, sched, process,
                   locals>>

(***************************************************************************)
(* One caller drives one orchestrator.                                     *)
(***************************************************************************)
Callers == {"main"}

Next ==
    \/ Construct
    \/ Tick
    \/ \E c \in Callers :
        \/ CallFullPipeline(c)
        \/ \E s \in Stages : CallStage(c, s)
        \/ Line170(c)
        \/ Line173(c)
        \/ Line176(c)
        \/ Line179(c)
        \/ Finish(c)
        \/ Collect(c)
        \/ Train(c)
        \/ Evaluate(c)
        \/ DeployLoad(c)
        \/ DeploySave(c)
        \/ Return(c)

Spec == Init /\ [][Next]_vars

(***************************************************************************)
(* The job registry of src/orchestration/scheduler.py.  An entry of        *)
(* schedule.jobs is modelled by its unit, start day and time of day, the   *)
(* method it is bound to, and whether its next run time has passed.        *)
(***************************************************************************)
\* largest number of entries schedule.jobs holds
MaxJobs == 2

\* the (hour, minute) arguments the schedule_ methods are called with
Times == {<<1, 0>>, <<2, 0>>}

\* the day arguments schedule_weekly_full_pipeline is called with
Days == {"sunday"}

\* the entry every().<unit>.at(...).do(self.f) builds; it is not due when
\* built.  self is the instance whose method the entry is bound to: the one
\* main.py constructs, unless the entry says otherwise
Job(unit, day, time, f) ==
    [unit |-> unit, start_day |-> day, at_time |-> time, job_func |-> f,
     self |-> "scheduler", due |-> FALSE]

AddJobMerging(e) ==
    jobs' = IF \E i \in 1..Len(jobs) : jobs[i].job_func = e.job_func
            THEN [i \in 1..Len(jobs) |->
                    IF jobs[i].job_func = e.job_func THEN e ELSE jobs[i]]
            ELSE Append(jobs, e)

\* Job.do: the entry is appended to schedule.jobs
AddJob(e) == jobs' = Append(jobs, e)

\* a user thread is not inside a method of the scheduler
Idle(u) == at[u] = "idle"

\* the calls start_scheduler of main.py (lines 113-136) makes, by the line
\* at which it makes them
Script == [l118 |-> "schedule_daily_training",
           l119 |-> "schedule_weekly_full_pipeline",
           l120 |-> "schedule_hourly_monitoring",
           l129 |-> "start_scheduler",
           l135 |-> "stop_scheduler"]

AfterStartingEarly == [l118 |-> "l119", l119 |-> "l129", l129 |-> "l120",
                       l120 |-> "l131", l135 |-> "l136"]

\* the line main.py reaches when the call made at a line has returned
After == [l118 |-> "l119", l119 |-> "l120", l120 |-> "l129",
          l129 |-> "l131", l135 |-> "l136"]

\* thread u can call method m: it is outside the scheduler's methods and,
\* when the main thread runs the command, m is the call at its line
MayCall(u, m) ==
    /\ Idle(u)
    /\ \/ command = "any"
       \/ u = "main" /\ command \in DOMAIN Script /\ Script[command] = m

\* the position of the main thread once the method it called has returned
Returned == IF command = "any" THEN "any" ELSE After[command]

\* the registry has room for an entry; only calls outside the command,
\* whose number nothing limits, are bounded
Room == command = "any" => Len(jobs) < MaxJobs

schedule_daily_training(u, time) ==
    /\ MayCall(u, "schedule_daily_training")
    /\ Room
    /\ AddJob(Job("days", "None", time, "_run_training_job"))
    /\ command' = Returned
    /\ UNCHANGED <<store, exit_code, locals, lifecycle, manual>>

schedule_weekly_full_pipeline(u, day, time) ==
    /\ MayCall(u, "schedule_weekly_full_pipeline")
    /\ Room
    /\ AddJob(Job("weeks", day, time, "_run_full_pipeline_job"))
    /\ command' = Returned
    /\ UNCHANGED <<store, exit_code, locals, lifecycle, manual>>

schedule_hourly_monitoring(u) ==
    /\ MayCall(u, "schedule_hourly_monitoring")
    /\ Room
    /\ AddJob(Job("hours", "None", <<>>, "_run_monitoring_job"))
    /\ command' = Returned
    /\ UNCHANGED <<store, exit_code, locals, lifecycle, manual>>

\* the clock reaches the next run time of entry i
BecomeDue(i) ==
    /\ i \in 1..Len(jobs)
    /\ ~jobs[i].due
    /\ jobs' = [jobs EXCEPT ![i].due = TRUE]
    /\ UNCHANGED <<store, process, locals, lifecycle, manual>>

(***************************************************************************)
(* start_scheduler and stop_scheduler, one action per statement that       *)
(* reads or writes an attribute another thread can write.                  *)
(***************************************************************************)
\* a Thread object that is running _run_scheduler
Alive(t) == thread[t] \in {"l67", "l68", "run_pending", "job"}

\* an identity a new Thread object can take: one never used, or one of an
\* object nothing will start, run or join any more once
\* self.scheduler_thread is reassigned
Free(t) ==
    /\ thread[t] \in {"none", "created", "exited"}
    /\ \A u \in Users : joining[u] # t
    /\ thread[t] = "created" => scheduler_thread # t
    /\ peer.scheduler_thread # t

\* the order in which identities are given to Thread objects
Rank == [poller |-> 1, poller2 |-> 2]

\* line 50: if self.running, warn and return
Start50(u) ==
    /\ MayCall(u, "start_scheduler")
    /\ at' = [at EXCEPT ![u] = IF running THEN "idle" ELSE "l54"]
    /\ command' = IF running THEN Returned ELSE command
    /\ orphans' = {}
    /\ UNCHANGED <<running, scheduler_thread, thread, pending, cur, joining,
                   seen, inflight>>
    /\ UNCHANGED <<store, exit_code, locals, jobs, manual>>

\* line 54: self.running = True
Start54(u) ==
    /\ at[u] = "l54"
    /\ running' = TRUE
    /\ at' = [at EXCEPT ![u] = "l55"]
    /\ UNCHANGED <<scheduler_thread, thread, pending, cur, joining, seen,
                   inflight, orphans>>
    /\ UNCHANGED <<store, process, locals, jobs, manual>>

\* lines 55-56: a new Thread object is assigned to self.scheduler_thread
Start55(u) ==
    /\ at[u] = "l55"
    /\ \E t \in Pollers :
          /\ Free(t)
          /\ \A t2 \in Pollers : Free(t2) => Rank[t] <= Rank[t2]
          /\ scheduler_thread' = t
          /\ thread' = [thread EXCEPT ![t] = "created"]
    /\ at' = [at EXCEPT ![u] = "l57"]
    /\ UNCHANGED <<running, pending, cur, joining, seen, inflight, orphans>>
    /\ UNCHANGED <<store, process, locals, jobs, manual>>

\* line 57: self.scheduler_thread.start(); start() of a Thread object that
\* was started before raises RuntimeError
Start57(u) ==
    /\ at[u] = "l57"
    /\ thread' = IF thread[scheduler_thread] = "created"
                 THEN [thread EXCEPT ![scheduler_thread] = "l67"]
                 ELSE thread
    /\ at' = [at EXCEPT ![u] = "idle"]
    /\ command' = Returned
    /\ UNCHANGED <<running, scheduler_thread, pending, cur, joining, seen,
                   inflight, orphans>>
    /\ UNCHANGED <<store, exit_code, locals, jobs, manual>>

\* line 61: self.running = False
Stop61(u) ==
    /\ MayCall(u, "stop_scheduler")
    /\ running' = FALSE
    /\ at' = [at EXCEPT ![u] = "l62"]
    /\ seen' = [seen EXCEPT ![u] = {t \in Pollers : Alive(t)}]
    /\ inflight' = [inflight EXCEPT ![u] = {t \in Pollers : thread[t] = "job"}]
    /\ UNCHANGED <<scheduler_thread, thread, pending, cur, joining, orphans>>
    /\ UNCHANGED <<store, process, locals, jobs, manual>>

\* lines 62-63: without a Thread object stop_scheduler returns; otherwise it
\* calls join() of the object self.scheduler_thread refers to
Stop62(u) ==
    /\ at[u] = "l62"
    /\ IF scheduler_thread = "None"
       THEN /\ at' = [at EXCEPT ![u] = "idle"]
            /\ command' = Returned
            /\ orphans' = orphans \cup seen[u]
            /\ seen' = [seen EXCEPT ![u] = {}]
            /\ inflight' = [inflight EXCEPT ![u] = {}]
            /\ UNCHANGED joining
       ELSE /\ at' = [at EXCEPT ![u] = "l63"]
            /\ joining' = [joining EXCEPT ![u] = scheduler_thread]
            /\ UNCHANGED <<seen, inflight, orphans, command>>
    /\ UNCHANGED <<running, scheduler_thread, thread, pending, cur>>
    /\ UNCHANGED <<store, exit_code, locals, jobs, manual>>

\* line 63: join() returns once the Thread object has ended; join() of an
\* object that was not started raises RuntimeError
Stop63(u) ==
    /\ at[u] = "l63"
    /\ thread[joining[u]] \in {"exited", "created"}
    /\ at' = [at EXCEPT ![u] = "idle"]
    /\ joining' = [joining EXCEPT ![u] = "None"]
    /\ orphans' = IF thread[joining[u]] = "exited"
                  THEN orphans \cup seen[u]
                  ELSE orphans
    /\ seen' = [seen EXCEPT ![u] = {}]
    /\ inflight' = [inflight EXCEPT ![u] = {}]
    /\ command' = Returned
    /\ UNCHANGED <<running, scheduler_thread, thread, pending, cur>>
    /\ UNCHANGED <<store, exit_code, locals, jobs, manual>>

(***************************************************************************)
(* _run_scheduler, executed by a Thread object, and the jobs it runs.      *)
(***************************************************************************)
\* the context c leaves the orchestrator operation it executed
Leave(c) ==
    /\ pc' = [pc EXCEPT ![c] = "idle"]
    /\ op' = [op EXCEPT ![c] = "none"]
    /\ report' = [report EXCEPT ![c] = InitialReport]
    /\ ret' = [ret EXCEPT ![c] = NoReturn]
    /\ trace' = [trace EXCEPT ![c] = <<>>]
    /\ invoked' = [invoked EXCEPT ![c] = {}]
    /\ loaded' = [loaded EXCEPT ![c] = {}]
    /\ version' = [version EXCEPT ![c] = -1]

\* the orchestrator operation context c executes has ended: it returned, or
\* an exception left it
OpEnded(c) == pc[c] \in {"returned", "raised", "stage_raised"}

\* the instance whose _run_scheduler the Thread object t executes
InstanceOf(t) == IF peer.scheduler_thread = t THEN "peer" ELSE "scheduler"

\* self.running as the Thread object t reads it
RunningOf(t) == IF InstanceOf(t) = "peer" THEN peer.running ELSE running

\* line 67: while self.running
Poll67(t) ==
    /\ thread[t] = "l67"
    /\ thread' = [thread EXCEPT
                    ![t] = IF RunningOf(t) THEN "l68" ELSE "exited"]
    /\ IF RunningOf(t)
       THEN UNCHANGED <<seen, orphans>>
       ELSE /\ seen' = [u \in Users |-> seen[u] \ {t}]
            /\ orphans' = orphans \ {t}
    /\ UNCHANGED <<running, scheduler_thread, pending, cur, at, joining,
                   inflight>>
    /\ UNCHANGED <<store, process, locals, jobs, manual>>

DueOfOwnInstance(t) ==
    {i \in 1..Len(jobs) : jobs[i].due /\ jobs[i].self = InstanceOf(t)}

\* the entries schedule.run_pending() called in t finds runnable: those of
\* schedule.jobs, the list of the module's default scheduler, whose run time
\* has passed
Due(t) == {i \in 1..Len(jobs) : jobs[i].due}

\* line 68: run_pending collects the jobs whose run time has passed
Poll68(t) ==
    /\ thread[t] = "l68"
    /\ thread' = [thread EXCEPT ![t] = "run_pending"]
    /\ pending' = [pending EXCEPT ![t] = Due(t)]
    /\ UNCHANGED <<running, scheduler_thread, cur, at, joining, seen, inflight,
                   orphans>>
    /\ UNCHANGED <<store, process, locals, jobs, manual>>

\* run_pending calls the method of one of the jobs it collected (it orders
\* them by run time, which the entries here do not record): lines 28-31,
\* 36-39 and 44-47 up to the call of the orchestrator
RunJob(t) ==
    /\ thread[t] = "run_pending"
    /\ \E i \in pending[t] :
          /\ pending' = [pending EXCEPT ![t] = @ \ {i}]
          /\ cur' = [cur EXCEPT ![t] = i]
          /\ CASE jobs[i].job_func = "_run_training_job" ->
                    /\ op' = [op EXCEPT ![t] = "run_training"]
                    /\ Enter(t, "training")
                    /\ UNCHANGED report
               [] jobs[i].job_func = "_run_full_pipeline_job" ->
                    /\ op' = [op EXCEPT ![t] = "run_full_pipeline"]
                    /\ pc' = [pc EXCEPT ![t] = "l170"]
                    /\ report' = [report EXCEPT ![t] = InitialReport]
                    /\ UNCHANGED <<trace, invoked>>
               [] jobs[i].job_func = "_run_monitoring_job" ->
                    UNCHANGED <<pc, op, report, trace, invoked>>
    /\ thread' = [thread EXCEPT ![t] = "job"]
    /\ UNCHANGED <<running, scheduler_thread, at, joining, seen, inflight,
                   orphans>>
    /\ UNCHANGED <<store, process, ret, loaded, version, jobs, manual>>

JobCatchesInTrainingOnly(f) == f = "_run_training_job"

\* the job methods whose body is a try block with `except Exception`
JobCatches(f) == f \in {"_run_training_job", "_run_full_pipeline_job"}

RescheduledOrCancelled(js, i) ==
    [j \in 1..(Len(js) - 1) |-> IF j < i THEN js[j] ELSE js[j + 1]]

\* schedule.jobs after the method of entry i has returned: the methods return
\* None (never schedule.CancelJob), so that the entry stays and only its
\* next run time is computed anew
Rescheduled(js, i) == [js EXCEPT ![i].due = FALSE]

\* the method of the job returns to run_pending, which computes the next run
\* time of the entry; an exception the method does not catch leaves
\* run_pending and _run_scheduler, and the Thread object ends
JobEnd(t) ==
    /\ thread[t] = "job"
    /\ LET f == jobs[cur[t]].job_func
           escapes == pc[t] \in {"raised", "stage_raised"} /\ ~JobCatches(f)
       IN  /\ f = "_run_monitoring_job" \/ OpEnded(t)
           /\ thread' = [thread EXCEPT
                           ![t] = IF escapes THEN "exited" ELSE "run_pending"]
           /\ pending' = [pending EXCEPT ![t] = IF escapes THEN {} ELSE @]
           /\ jobs' = IF escapes THEN jobs ELSE Rescheduled(jobs, cur[t])
           /\ seen' = IF escapes THEN [u \in Users |-> seen[u] \ {t}] ELSE seen
           /\ orphans' = IF escapes THEN orphans \ {t} ELSE orphans
    /\ cur' = [cur EXCEPT ![t] = 0]
    /\ inflight' = [u \in Users |-> inflight[u] \ {t}]
    /\ Leave(t)
    /\ UNCHANGED <<running, scheduler_thread, at, joining>>
    /\ UNCHANGED <<store, process, manual>>

\* run_pending has run the jobs it collected and returns; line 69: sleep
Poll69(t) ==
    /\ thread[t] = "run_pending"
    /\ pending[t] = {}
    /\ thread' = [thread EXCEPT ![t] = "l67"]
    /\ UNCHANGED <<running, scheduler_thread, pending, cur, at, joining, seen,
                   inflight, orphans>>
    /\ UNCHANGED <<store, process, locals, jobs, manual>>

(***************************************************************************)
(* Two user threads start and stop one scheduler whose registry holds a    *)
(* training job and a monitoring job.                                      *)
(***************************************************************************)
\* the configuration file is absent: the orchestrator the scheduler
\* constructs (line 12) holds the default config
InitStore ==
    /\ cfgFile \in {f \in ConfigFiles : f.kind = "missing"}
    /\ orch = [state |-> "ready", config |-> load_config(cfgFile).config]
    /\ docs \in {0, MaxStored}
    /\ pairs = MaxPairs
    /\ registry = {}
    /\ registered = {}
    /\ now = 0
    /\ InitAside

InitLifecycle ==
    /\ InitStore
    /\ InitProcess
    /\ InitLocals
    /\ InitScheduler
    /\ jobs = <<Job("days", "None", <<2, 0>>, "_run_training_job")>>

NextLifecycle ==
    \/ \E u \in Users :
        \/ Start50(u)
        \/ Start54(u)
        \/ Start55(u)
        \/ Start57(u)
        \/ Stop61(u)
        \/ Stop62(u)
        \/ Stop63(u)
    \/ \E t \in Pollers :
        \/ Poll67(t)
        \/ Poll68(t)
        \/ RunJob(t)
        \/ Train(t)
        \/ JobEnd(t)
        \/ Poll69(t)
    \/ \E i \in 1..MaxJobs : BecomeDue(i)

SpecLifecycle == InitLifecycle /\ [][NextLifecycle]_vars

(***************************************************************************)
(* The manual triggers, executed by the thread that calls them.            *)
(***************************************************************************)
\* largest number of trigger_manual_training calls made
MaxTriggers == 2

\* the keys of the report run_full_pipeline returns
ReportKeys == DOMAIN InitialReport

TrainingRecordOfSuccessOnly(p, r) ==
    IF p = "returned" /\ r.ok
    THEN [returned |-> TRUE, keys |-> {"success", "timestamp"}, success |-> TRUE]
    ELSE [returned |-> TRUE, keys |-> {"error", "timestamp"}, success |-> FALSE]

\* the record trigger_manual_training returns when run_training ended at
\* position p with result r: line 75, or line 78 after an exception
TrainingRecord(p, r) ==
    IF p = "returned"
    THEN [returned |-> TRUE, keys |-> {"success", "timestamp"}, success |-> r.ok]
    ELSE [returned |-> TRUE, keys |-> {"success", "error", "timestamp"},
          success |-> FALSE]

\* the record trigger_manual_full_pipeline returns: the report (line 84), or
\* the record of line 87 after an exception
PipelineRecord(p, rep) ==
    IF p = "returned"
    THEN [returned |-> TRUE, keys |-> ReportKeys, success |-> rep.success]
    ELSE [returned |-> TRUE, keys |-> {"success", "error", "timestamp"},
          success |-> FALSE]

\* the trigger_manual_training calls that have not returned
Triggering == {u \in Users : at[u] = "l73"}

MayTriggerOutsideJobs(u) == Idle(u) /\ \A t \in Pollers : thread[t] # "job"

\* what a manual trigger waits for before it calls the orchestrator: nothing
\* (no lock is taken, self.running is not read)
MayTrigger(u) == Idle(u)

\* lines 71-73: trigger_manual_training calls run_training
trigger_manual_training(u) ==
    /\ MayTrigger(u)
    /\ completed + Cardinality(Triggering) < MaxTriggers
    /\ at' = [at EXCEPT ![u] = "l73"]
    /\ result' = [result EXCEPT ![u] = NoResult]
    /\ op' = [op EXCEPT ![u] = "run_training"]
    /\ Enter(u, "training")
    /\ UNCHANGED <<running, scheduler_thread, thread, pending, cur, joining,
                   seen, inflight, orphans>>
    /\ UNCHANGED <<store, process, jobs, completed, report, ret, loaded,
                   version>>

\* lines 74-78: trigger_manual_training returns its record
trigger_manual_training_return(u) ==
    /\ at[u] = "l73"
    /\ OpEnded(u)
    /\ at' = [at EXCEPT ![u] = "idle"]
    /\ result' = [result EXCEPT ![u] = TrainingRecord(pc[u], ret[u])]
    /\ completed' = completed + 1
    /\ Leave(u)
    /\ UNCHANGED <<running, scheduler_thread, thread, pending, cur, joining,
                   seen, inflight, orphans>>
    /\ UNCHANGED <<store, process, jobs>>

\* lines 80-83: trigger_manual_full_pipeline calls run_full_pipeline
trigger_manual_full_pipeline(u) ==
    /\ MayTrigger(u)
    /\ at' = [at EXCEPT ![u] = "l83"]
    /\ result' = [result EXCEPT ![u] = NoResult]
    /\ op' = [op EXCEPT ![u] = "run_full_pipeline"]
    /\ pc' = [pc EXCEPT ![u] = "l170"]
    /\ report' = [report EXCEPT ![u] = InitialReport]
    /\ UNCHANGED <<running, scheduler_thread, thread, pending, cur, joining,
                   seen, inflight, orphans>>
    /\ UNCHANGED <<store, process, jobs, completed, ret, trace, invoked,
                   loaded, version>>

\* lines 84-87: trigger_manual_full_pipeline returns the report, or the
\* record of the exception
trigger_manual_full_pipeline_return(u) ==
    /\ at[u] = "l83"
    /\ OpEnded(u)
    /\ at' = [at EXCEPT ![u] = "idle"]
    /\ result' = [result EXCEPT ![u] = PipelineRecord(pc[u], report[u])]
    /\ Leave(u)
    /\ UNCHANGED <<running, scheduler_thread, thread, pending, cur, joining,
                   seen, inflight, orphans>>
    /\ UNCHANGED <<store, process, jobs, completed>>

(***************************************************************************)
(* One user thread starts and stops the scheduler and calls the manual     *)
(* triggers while the polling thread runs the jobs main.py registers.      *)
(***************************************************************************)
\* a config with which run_full_pipeline attempts no stage after data
\* collection: the empty mapping (the lookup of line 170 raises KeyError),
\* or one with all four entries, the later three disabled
CollectsAtMost(cfg) ==
    \/ DOMAIN cfg = {}
    \/ /\ DOMAIN cfg = Stages
       /\ \A s \in Stages :
             /\ cfg[s].enabled => s = "data_collection"
             /\ cfg[s].params = ReadKey[s]

\* the configuration file holds such a config
InitTriggerStore ==
    /\ cfgFile \in {f \in ConfigFiles : f.kind = "json" /\ CollectsAtMost(f.content)}
    /\ orch = [state |-> "ready", config |-> load_config(cfgFile).config]
    /\ docs \in {0, MaxStored}
    /\ pairs = MaxPairs
    /\ registry = {}
    /\ registered = {}
    /\ now = 0
    /\ InitAside

\* main.py lines 118-120
DefaultJobs ==
    <<Job("days", "None", <<2, 0>>, "_run_training_job"),
      Job("weeks", "sunday", <<1, 0>>, "_run_full_pipeline_job"),
      Job("hours", "None", <<>>, "_run_monitoring_job")>>

InitTrigger ==
    /\ InitTriggerStore
    /\ InitProcess
    /\ InitLocals
    /\ InitScheduler
    /\ jobs = DefaultJobs

\* the statements of run_training and, for these configs, of
\* run_full_pipeline, executed by context c
Orchestrate(c) ==
    \/ Line170(c)
    \/ Line173(c)
    \/ Line176(c)
    \/ Line179(c)
    \/ Finish(c)
    \/ Collect(c)
    \/ Train(c)

NextTrigger ==
    \/ \E u \in Callers :
        \/ Start50(u)
        \/ Start54(u)
        \/ Start55(u)
        \/ Start57(u)
        \/ Stop61(u)
        \/ Stop62(u)
        \/ Stop63(u)
        \/ trigger_manual_training(u)
        \/ trigger_manual_training_return(u)
        \/ trigger_manual_full_pipeline(u)
        \/ trigger_manual_full_pipeline_return(u)
        \/ Orchestrate(u)
    \/ \E t \in Pollers :
        \/ Poll67(t)
        \/ Poll68(t)
        \/ RunJob(t)
        \/ JobEnd(t)
        \/ Poll69(t)
        \/ Orchestrate(t)
    \/ \E i \in 1..Len(DefaultJobs) : BecomeDue(i)

SpecTrigger == InitTrigger /\ [][NextTrigger]_vars

\* the thread that called trigger_manual_training keeps executing: the
\* collaborators of run_training terminate and the record is returned
FairTrigger ==
    /\ SpecTrigger
    /\ \A u \in Callers :
          /\ WF_vars(Train(u))
          /\ WF_vars(trigger_manual_training_return(u))

(***************************************************************************)
(* One user thread registers jobs, starts and stops the scheduler; the     *)
(* polling thread runs the jobs registered.                                *)
(***************************************************************************)
InitRegistry ==
    /\ InitTriggerStore
    /\ InitProcess
    /\ InitLocals
    /\ InitScheduler
    /\ jobs = <<>>

NextRegistry ==
    \/ \E u \in Callers :
        \/ \E time \in Times : schedule_daily_training(u, time)
        \/ \E day \in Days, time \in Times :
              schedule_weekly_full_pipeline(u, day, time)
        \/ schedule_hourly_monitoring(u)
        \/ Start50(u)
        \/ Start54(u)
        \/ Start55(u)
        \/ Start57(u)
        \/ Stop61(u)
        \/ Stop62(u)
        \/ Stop63(u)
    \/ \E t \in Pollers :
        \/ Poll67(t)
        \/ Poll68(t)
        \/ RunJob(t)
        \/ JobEnd(t)
        \/ Poll69(t)
        \/ Orchestrate(t)
    \/ \E i \in 1..MaxJobs : BecomeDue(i)

SpecRegistry == InitRegistry /\ [][NextRegistry]_vars

(***************************************************************************)
(* The start-scheduler command of main.py (lines 113-136): the main thread *)
(* constructs the scheduler, registers the three jobs, starts the          *)
(* scheduler and sleeps until KeyboardInterrupt, then stops it.            *)
(***************************************************************************)
\* lines 133-135: KeyboardInterrupt inside the try block, raised in
\* start_scheduler or in the sleep loop, takes the main thread to the call
\* of stop_scheduler
Interrupt ==
    /\ command \in {"l129", "l131"}
    /\ command' = "l135"
    /\ at' = [at EXCEPT !["main"] = "idle"]
    /\ UNCHANGED <<running, scheduler_thread, thread, pending, cur, joining,
                   seen, inflight, orphans>>
    /\ UNCHANGED <<store, exit_code, locals, jobs, manual>>

\* line 116, about to execute line 118
InitCommand ==
    /\ InitTriggerStore
    /\ InitLocals
    /\ InitScheduler
    /\ jobs = <<>>
    /\ exit_code = -1
    /\ command = "l118"

NextCommand ==
    \/ schedule_daily_training("main", <<2, 0>>)
    \/ schedule_weekly_full_pipeline("main", "sunday", <<1, 0>>)
    \/ schedule_hourly_monitoring("main")
    \/ Start50("main")
    \/ Start54("main")
    \/ Start55("main")
    \/ Start57("main")
    \/ Interrupt
    \/ Stop61("main")
    \/ Stop62("main")
    \/ Stop63("main")
    \/ \E t \in Pollers :
        \/ Poll67(t)
        \/ Poll68(t)
        \/ RunJob(t)
        \/ JobEnd(t)
        \/ Poll69(t)
        \/ Orchestrate(t)
    \/ \E i \in 1..Len(DefaultJobs) : BecomeDue(i)

SpecCommand == InitCommand /\ [][NextCommand]_vars

(***************************************************************************)
(* Vocabulary of the properties.                                           *)
(***************************************************************************)
\* the stages whose operation context c has entered in this execution
Attempted(c) == {trace[c][i].stage : i \in 1..Len(trace[c])}

\* stage s was attempted by c in this execution and returned a truthy result
ReturnedTruthy(c, s) ==
    \E i \in 1..Len(trace[c]) :
        trace[c][i].stage = s /\ trace[c][i].done /\ trace[c][i].ok

\* c executes run_full_pipeline
InFull(c) == op[c] = "run_full_pipeline"

\* run_full_pipeline of c has returned its report
FullReturned(c) == InFull(c) /\ pc[c] = "returned"

\* the latest stage operation c has entered, with its outcome
Last(c) == trace[c][Len(trace[c])]

\* the latest stage operation of c was s and it has ended
Ended(c, s) ==
    /\ trace[c] # <<>>
    /\ Last(c).stage = s
    /\ Last(c).done

\* stage s has an entry in the loaded config and is enabled
Enabled(s) == s \in DOMAIN orch.config /\ orch.config[s].enabled

\* stage s has an entry in the loaded config and is disabled
Disabled(s) == s \in DOMAIN orch.config /\ ~orch.config[s].enabled

\* all four stages are enabled in the loaded config
AllEnabled == \A s \in Stages : Enabled(s)

\* an exception has left the operation c executes
Raised(c) == pc[c] \in {"raised", "stage_raised"}

(***************************************************************************)
(* C1: in every run_full_pipeline execution, run_training is attempted     *)
(* only if training is enabled and run_data_collection returned true in    *)
(* this run, run_evaluation only if evaluation is enabled and run_training *)
(* returned true, run_deployment only if deployment is enabled and         *)
(* run_evaluation returned a non-empty mapping.                            *)
(***************************************************************************)
C1_GatedAttempts ==
    \A c \in Ctx : InFull(c) =>
        \A i \in 2..Len(StageOrder) :
            StageOrder[i] \in Attempted(c) =>
                /\ Enabled(StageOrder[i])
                /\ ReturnedTruthy(c, StageOrder[i - 1])

\* a full run in which all four stages have been attempted
C1_Witness ==
    \E c \in Ctx : InFull(c) /\ Attempted(c) = Stages

(***************************************************************************)
(* C2: the report returned by run_full_pipeline has success = true if and  *)
(* only if all four stages are enabled and each of them returned a truthy  *)
(* result in this run (evaluation: a non-empty mapping).                   *)
(***************************************************************************)
C2_SuccessIffAllStages ==
    \A c \in Ctx : FullReturned(c) =>
        (report[c].success <=>
            \A s \in Stages : Enabled(s) /\ ReturnedTruthy(c, s))

\* a report returned with success = true
C2_Witness ==
    \E c \in Ctx : FullReturned(c) /\ report[c].success

(***************************************************************************)
(* C3: within one run_full_pipeline execution the stages attempted are, in *)
(* order, an initial part of collection, training, evaluation, deployment: *)
(* each at most once, none after a stage that was skipped, and a stage is  *)
(* entered only after the one before it has ended.                         *)
(***************************************************************************)
C3_OrderedPrefix ==
    \A c \in Ctx : InFull(c) =>
        /\ Len(trace[c]) <= Len(StageOrder)
        /\ \A i \in 1..Len(trace[c]) :
              /\ trace[c][i].stage = StageOrder[i]
              /\ i < Len(trace[c]) => trace[c][i].done

\* a run that reached its end after the guard of training failed, with the
\* later stages enabled and never attempted
C3_Witness ==
    \E c \in Ctx :
        /\ FullReturned(c)
        /\ Attempted(c) = {"data_collection"}
        /\ ReturnedTruthy(c, "data_collection")
        /\ Disabled("training")
        /\ Enabled("evaluation")
        /\ Enabled("deployment")

C5_ZeroDocumentsFail ==
    \A c \in Ctx :
        /\ (/\ Ended(c, "data_collection")
            /\ Last(c).exc = "none"
            /\ Last(c).fetched = 0) => ~ret[c].ok
        /\ (/\ FullReturned(c)
            /\ AllEnabled
            /\ trace[c][1].exc = "none"
            /\ trace[c][1].fetched = 0) =>
               /\ report[c] = InitialReport
               /\ Attempted(c) = {"data_collection"}

(***************************************************************************)
(* C6: run_training called when the document store holds zero documents    *)
(* returns false and calls neither the training-pair generator nor the     *)
(* formatter.                                                              *)
(***************************************************************************)
\* the generator and the formatter, and the operations called on them
PairCollaborators ==
    {"QAGenerator", "generate_qa_from_documents", "TrainingDataFormatter",
     "format_for_sft", "create_dataset"}

C6_NoDocumentsNoTraining ==
    \A c \in Ctx : (Ended(c, "training") /\ docs = 0) =>
        /\ ~Last(c).ok
        /\ ~ret[c].ok
        /\ pc[c] # "stage_raised"
        /\ invoked[c] \cap PairCollaborators = {}

\* run_training has read an empty document list and returned
C6_Witness ==
    \E c \in Ctx :
        /\ Ended(c, "training")
        /\ docs = 0
        /\ Last(c).fetched = 0
        /\ pc[c] \in {"returned", "l176"}

(***************************************************************************)
(* C7: run_evaluation called when the store holds zero training pairs      *)
(* returns the empty mapping without calling the benchmark generator or    *)
(* the evaluator; when training pairs exist and no collaborator raises it  *)
(* returns a mapping with the fixed set of metric keys.                    *)
(***************************************************************************)
BenchmarkCollaborators ==
    {"BenchmarkGenerator", "generate_benchmark_dataset", "Evaluator"}

C8_NoExceptionEscapes ==
    \A c \in Ctx :
        /\ pc[c] # "stage_raised"
        /\ \A s \in Stages : (Ended(c, s) /\ Last(c).exc # "none") =>
              /\ ~ret[c].ok
              /\ ret[c].metrics = {}
              /\ InFull(c) => report[c][s] = InitialReport[s]

\* run_deployment has returned after _save_registry raised
C8_Witness ==
    \E c \in Ctx :
        /\ Ended(c, "deployment")
        /\ Last(c).exc = "_save_registry"
        /\ pc[c] = "returned"

(***************************************************************************)
(* C9: constructing a PipelineOrchestrator when the configuration file     *)
(* exists but is malformed does not raise: the built-in default            *)
(* configuration is used.                                                  *)
(***************************************************************************)
C9_MalformedUsesDefault ==
    (cfgFile.kind = "malformed" /\ orch.state # "none") =>
        /\ orch.state = "ready"
        /\ orch.config = DefaultConfig

(***************************************************************************)
(* C10: after construction the config holds an entry for each of           *)
(* data_collection, training, evaluation and deployment; when the          *)
(* configuration file is missing it is the built-in default, in which all  *)
(* four stages have enabled = true.                                        *)
(***************************************************************************)
C10_ConfigAfterConstruction ==
    orch.state = "ready" =>
        /\ Stages \subseteq DOMAIN orch.config
        /\ cfgFile.kind = "missing" =>
              /\ orch.config = DefaultConfig
              /\ \A s \in Stages : orch.config[s].enabled

(***************************************************************************)
(* Vocabulary of the scheduler's properties.                               *)
(***************************************************************************)
\* the Thread objects that are running _run_scheduler
AlivePollers == {t \in Pollers : Alive(t)}

\* the Thread objects that are inside the method of a job
InJob == {t \in Pollers : thread[t] = "job"}

\* this step is the normal return of the stop_scheduler call of u
StopReturns(u) ==
    /\ at'[u] = "idle"
    /\ \/ at[u] = "l62" /\ scheduler_thread = "None"
       \/ at[u] = "l63" /\ thread[joining[u]] = "exited"

\* this step is the call of the method of a job by run_pending in t
JobBegins(t) == thread[t] # "job" /\ thread'[t] = "job"

(***************************************************************************)
(* C11: after any sequence and any interleaving of start_scheduler and     *)
(* stop_scheduler calls, calls from different threads included, at most    *)
(* one background polling thread of the scheduler is alive; a              *)
(* start_scheduler call that finds running true spawns no thread and       *)
(* changes no attribute of the scheduler.                                  *)
(***************************************************************************)
C11_AtMostOnePollingThread ==
    /\ Cardinality(AlivePollers) <= 1
    /\ \A u \in Users :
          (Idle(u) /\ running) =>
              ENABLED (Start50(u) /\ UNCHANGED <<running, scheduler_thread,
                                                 thread, at>>)

(***************************************************************************)
(* C12: stop_scheduler returns only after the background polling thread    *)
(* has exited, and after a stop_scheduler call has returned, until a later *)
(* start_scheduler, no scheduled job invocation begins.                    *)
(***************************************************************************)
C12_NoJobAfterStop ==
    [][/\ \A u \in Users : StopReturns(u) => seen[u] = {}
       /\ \A t \in orphans : ~JobBegins(t)]_vars

(***************************************************************************)
(* C13: a scheduled job that has started before stop_scheduler is called   *)
(* is not aborted: it runs to completion, and stop_scheduler does not      *)
(* return before that job has finished.                                    *)
(***************************************************************************)
C13_StopWaitsForJob ==
    [][\A u \in Users : StopReturns(u) => inflight[u] = {}]_vars

(***************************************************************************)
(* C14: a manual trigger runs its orchestrator operation on the caller's   *)
(* thread whether the scheduler is running or stopped, with no mutual      *)
(* exclusion against the poller: the triggers can be called in every state *)
(* in which the caller is outside the scheduler's methods, whatever the    *)
(* polling thread does, the operation then executes in the caller's        *)
(* context, and a state in which a manually triggered operation and the    *)
(* operation of a scheduled job are both in progress is reachable.         *)
(***************************************************************************)
\* the manual trigger of u is inside its orchestrator operation
ManualInProgress(u) == at[u] \in {"l73", "l83"} /\ pc[u] \notin {"idle"}

\* the polling thread t is inside the orchestrator operation of a job
ScheduledInProgress(t) == thread[t] = "job" /\ pc[t] \notin {"idle"}

C14_TriggerNotExcluded ==
    \A u \in Callers :
        /\ (Idle(u) /\ completed < MaxTriggers) =>
              ENABLED trigger_manual_training(u)
        /\ Idle(u) => ENABLED trigger_manual_full_pipeline(u)
        /\ at[u] \in {"l73", "l83"} <=> op[u] # "none"
        /\ at[u] = "l73" => op[u] = "run_training"
        /\ at[u] = "l83" => op[u] = "run_full_pipeline"

C14_Witness ==
    \E u \in Callers, t \in Pollers :
        /\ ManualInProgress(u) /\ ~OpEnded(u)
        /\ ScheduledInProgress(t) /\ ~OpEnded(t)
        /\ running

(***************************************************************************)
(* C15: every trigger_manual_training call completes, a second one issued  *)
(* right after the first included, and returns a record that carries a     *)
(* success value, whether or not a scheduled job runs at the same time and *)
(* whether run_training succeeds, fails or raises (the collaborators       *)
(* terminate).                                                             *)
(***************************************************************************)
\* the latest manual trigger of u has returned a record with a success value
Reported(u) == result[u].returned /\ "success" \in result[u].keys

C15_TriggersComplete ==
    \A u \in Callers :
        /\ [](result[u].returned => Reported(u))
        /\ (at[u] = "l73") ~> (Idle(u) /\ Reported(u))

C15_Witness ==
    \E u \in Callers, t \in Pollers :
        /\ completed >= 2
        /\ Idle(u) /\ Reported(u) /\ ~result[u].success
        /\ ScheduledInProgress(t)

(***************************************************************************)
(* C16: scheduled jobs never run concurrently with each other: at any time *)
(* at most one scheduled job invocation is in progress, and the next poll  *)
(* does not begin until the current job has returned.                      *)
(***************************************************************************)
C16_OneJobAtATime ==
    /\ Cardinality(InJob) <= 1
    /\ \A t \in Pollers : thread[t] \in {"l67", "l68"} => cur[t] = 0

(***************************************************************************)
(* C17: a scheduled job whose orchestrator call fails or raises does not   *)
(* terminate the polling loop: the polling thread goes on with the pass,   *)
(* and ends only when it finds running false at line 67; the failed job is *)
(* not retried before its next regular firing (its entry is rescheduled    *)
(* like that of a job that succeeded, and it is not run again in the       *)
(* pass).                                                                  *)
(***************************************************************************)
\* the orchestrator call of the job t runs has raised, or returned a falsy
\* result (run_full_pipeline: a report without success)
JobFailed(t) ==
    /\ thread[t] = "job"
    /\ OpEnded(t)
    /\ \/ pc[t] # "returned"
       \/ op[t] = "run_full_pipeline" /\ ~report[t].success
       \/ op[t] = "run_training" /\ ~ret[t].ok

C17_FailedJobKeepsPolling ==
    [][\A t \in Pollers :
          /\ (JobFailed(t) /\ thread'[t] # "job") =>
                /\ thread'[t] = "run_pending"
                /\ ~jobs'[cur[t]].due
                /\ cur[t] \notin pending'[t]
                /\ pending'[t] = pending[t]
          /\ (thread[t] # "exited" /\ thread'[t] = "exited") =>
                (thread[t] = "l67" /\ ~running)]_vars

C17_Witness ==
    \E t \in Pollers :
        /\ JobFailed(t)
        /\ pc[t] = "raised"
        /\ pending[t] # {}
        /\ running

(***************************************************************************)
(* C18: each call of schedule_daily_training,                              *)
(* schedule_weekly_full_pipeline or schedule_hourly_monitoring adds        *)
(* exactly one entry to the job registry and removes or merges none;       *)
(* calling the same operation twice with identical parameters leaves two   *)
(* independent entries, each of which fires: a pass of run_pending         *)
(* collects every entry that is due, and the run of one entry changes no   *)
(* other entry.                                                            *)
(***************************************************************************)
\* this step is a call of one of the three schedule_ methods
ScheduleCall ==
    \E u \in Users :
        \/ \E time \in Times : schedule_daily_training(u, time)
        \/ \E day \in Days, time \in Times :
              schedule_weekly_full_pipeline(u, day, time)
        \/ schedule_hourly_monitoring(u)

\* entries i and j were registered by the same call with the same arguments
SameCall(i, j) ==
    /\ jobs[i].unit = jobs[j].unit
    /\ jobs[i].start_day = jobs[j].start_day
    /\ jobs[i].at_time = jobs[j].at_time
    /\ jobs[i].job_func = jobs[j].job_func

C18_OneEntryPerCall ==
    [][/\ ScheduleCall =>
             /\ Len(jobs') = Len(jobs) + 1
             /\ SubSeq(jobs', 1, Len(jobs)) = jobs
       /\ \A t \in Pollers :
             /\ (thread[t] = "l68" /\ thread'[t] = "run_pending") =>
                    pending'[t] = {i \in 1..Len(jobs) : jobs[i].due}
             /\ (thread[t] = "job" /\ thread'[t] # "job") =>
                    /\ Len(jobs') = Len(jobs)
                    /\ \A i \in 1..Len(jobs) : i # cur[t] => jobs'[i] = jobs[i]]_vars

C18_Witness ==
    \E t \in Pollers :
        /\ Len(jobs) = 2
        /\ SameCall(1, 2)
        /\ thread[t] = "job"
        /\ cur[t] = 1
        /\ 2 \in pending[t]

(***************************************************************************)
(* C19: the set of entries in the job registry changes only before         *)
(* start_scheduler: in every reachable state in which the scheduler has    *)
(* been started (start_scheduler has set running or created the polling    *)
(* thread), and so in every state in which the poller is running, no       *)
(* operation adds or removes a registry entry.                             *)
(***************************************************************************)
\* the entries of the registry, without what a run changes of them
Entries(js) ==
    [i \in 1..Len(js) |-> [unit |-> js[i].unit, start_day |-> js[i].start_day,
                           at_time |-> js[i].at_time,
                           job_func |-> js[i].job_func]]

\* start_scheduler has been called and has passed line 50
Started == running \/ scheduler_thread # "None" \/ at["main"] # "idle"

C19_RegistryFixedAfterStart ==
    [][(Started \/ AlivePollers # {}) => Entries(jobs') = Entries(jobs)]_vars

C19_Witness ==
    /\ Entries(jobs) = Entries(DefaultJobs)
    /\ command = "l131"
    /\ \E t \in Pollers : thread[t] = "job"

(***************************************************************************)
(* C20: for each of the commands run-pipeline, collect-data, train-model,  *)
(* evaluate-model and deploy-model the process exits with code 0 when the  *)
(* orchestrator operation returns a truthy result (run-pipeline: a report  *)
(* with success) and with code 1 when it returns a falsy result or raises. *)
(***************************************************************************)
\* the operation of the command c runs has returned a truthy result
Succeeded(c) ==
    /\ pc[c] = "returned"
    /\ IF op[c] = "run_full_pipeline" THEN report[c].success ELSE ret[c].ok

\* this step is the exit of the command c runs
Exits(c) == OpEnded(c) /\ pc'[c] = "idle"

Deployed == {r.version : r \in {x \in registered : x.ok}}

\* in this step the run_deployment call of context c returns true
DeploymentSucceeds(c) ==
    /\ pc[c] = "deploy_save"
    /\ pc'[c] # "deploy_save"
    /\ ret'[c].ok

C21_DistinctVersionTags ==
    [][\A c \in Ctx :
          DeploymentSucceeds(c) => \A v \in Deployed : v < version[c]]_vars

(***************************************************************************)
(* C27: run_deployment has no partial effect: whenever it returns false,   *)
(* for every loaded config, the one whose deployment entry lacks           *)
(* auto_deploy included, the model registry contains exactly the entries   *)
(* it contained before the call.                                           *)
(***************************************************************************)
\* in this step the run_deployment call of context c returns false
DeploymentFails(c) ==
    /\ pc[c] \in {"deploy_load", "deploy_save"}
    /\ pc'[c] \notin {"deploy_load", "deploy_save"}
    /\ ~ret'[c].ok

\* one caller: the registry changes between the call and its return only
\* through the call
C27_NoPartialEffect ==
    [][\A c \in Callers : DeploymentFails(c) => registry' = registry]_vars

(***************************************************************************)
(* A manual full-pipeline run beside a scheduled one: the main thread has  *)
(* started the scheduler, whose registry holds the weekly full-pipeline    *)
(* job, and calls trigger_manual_full_pipeline while the polling thread    *)
(* runs the job.  Both contexts use the same registry file.                *)
(***************************************************************************)
\* the configuration file is absent (default config, four stages enabled);
\* documents and training pairs are stored, so that a run reaches deployment
InitDeployStore ==
    /\ cfgFile \in {f \in ConfigFiles : f.kind = "missing"}
    /\ orch = [state |-> "ready", config |-> load_config(cfgFile).config]
    /\ docs = MaxStored
    /\ pairs = MaxPairs
    /\ registry = {}
    /\ registered = {}
    /\ now = 0
    /\ InitAside

InitDeploy ==
    /\ InitDeployStore
    /\ InitProcess
    /\ InitLocals
    /\ InitScheduler
    /\ jobs = <<Job("weeks", "sunday", <<1, 0>>, "_run_full_pipeline_job")>>

\* the statements of run_full_pipeline and of the four stage operations,
\* executed by context c
OrchestrateAll(c) ==
    \/ Orchestrate(c)
    \/ Evaluate(c)
    \/ DeployLoad(c)
    \/ DeploySave(c)

NextDeploy ==
    \/ Tick
    \/ \E u \in Callers :
        \/ Start50(u)
        \/ Start54(u)
        \/ Start55(u)
        \/ Start57(u)
        \/ trigger_manual_full_pipeline(u)
        \/ trigger_manual_full_pipeline_return(u)
        \/ OrchestrateAll(u)
    \/ \E t \in Pollers :
        \/ Poll67(t)
        \/ Poll68(t)
        \/ RunJob(t)
        \/ JobEnd(t)
        \/ Poll69(t)
        \/ OrchestrateAll(t)
    \/ BecomeDue(1)

SpecDeploy == InitDeploy /\ [][NextDeploy]_vars

(***************************************************************************)
(* C28: no registration is lost under concurrency: after any interleaving  *)
(* of register_model calls made from different execution contexts (a       *)
(* manual full-pipeline run and a scheduled one) with distinct (name,      *)
(* version) pairs, every call that returned an id has its entry present in *)
(* the registry file.                                                      *)
(***************************************************************************)
\* the versions of the register_model calls that returned an id
Registered == {r.version : r \in registered}

\* two calls with the same version write the same entry, so that an entry
\* is missing only when the versions differ
C28_NoLostRegistration == Registered \subseteq registry

(***************************************************************************)
(* C25: starting from a store that holds no training pairs, a              *)
(* run_full_pipeline with all four stages enabled in which collection      *)
(* stores at least one document and no collaborator raises passes the      *)
(* data-availability gate of evaluation (the pairs run_training produces   *)
(* are visible to run_evaluation in the same run) and ends with            *)
(* success = true.                                                         *)
(***************************************************************************)
\* no exception ended the try block of a stage operation c attempted
NothingRaised(c) == \A i \in 1..Len(trace[c]) : trace[c][i].exc = "none"

\* run_data_collection of c obtained, and stored, at least one document
CollectedSome(c) ==
    \E i \in 1..Len(trace[c]) :
        trace[c][i].stage = "data_collection" /\ trace[c][i].fetched >= 1

\* no operation writes the training_data table, so that it holds no pairs
\* at the start of the run exactly when it holds none now
C25_TrainingFeedsEvaluation ==
    \A c \in Callers :
        (/\ FullReturned(c)
         /\ AllEnabled
         /\ pairs = 0
         /\ CollectedSome(c)
         /\ NothingRaised(c))
        => /\ report[c].evaluation # {}
           /\ report[c].success

(***************************************************************************)
(* C26: in every report returned by run_full_pipeline the stage results    *)
(* form a prefix chain: deployment == true implies that evaluation is      *)
(* non-empty, which implies training == true, which implies                *)
(* data_collection == true; consequently success == true exactly when      *)
(* deployment == true.                                                     *)
(***************************************************************************)
PrefixChain(rep) ==
    /\ rep.deployment => rep.evaluation # {}
    /\ rep.evaluation # {} => rep.training
    /\ rep.training => rep.data_collection

C26_ReportIsPrefixChain ==
    \A c \in Callers :
        FullReturned(c) => /\ PrefixChain(report[c])
                           /\ report[c].success <=> report[c].deployment

\* a run whose four stages returned truthy results has returned its report
C26_Witness ==
    /\ FullReturned("main")
    /\ report["main"].deployment
    /\ report["main"].evaluation = ResultKeys

(***************************************************************************)
(* C22: neither a manual trigger nor a scheduled job invocation changes    *)
(* the lifecycle state or the registry of the scheduler: whatever the      *)
(* orchestrator returns or raises, running, the polling-thread reference   *)
(* and the set of registry entries are the same after the invocation as    *)
(* before it.                                                              *)
(***************************************************************************)
\* this step changes what context c holds of the orchestrator operation it
\* executes
Moves(c) ==
    <<pc[c], op[c], report[c], ret[c], trace[c], invoked[c]>>' #
    <<pc[c], op[c], report[c], ret[c], trace[c], invoked[c]>>

\* this step is one of a manual trigger called by thread u: its call, a
\* statement of the orchestrator operation, or its return
TriggerStep(u) ==
    /\ at[u] \in {"l73", "l83"} \/ at'[u] \in {"l73", "l83"}
    /\ at'[u] # at[u] \/ Moves(u)

\* this step is one of a job invocation in Thread object t
JobStep(t) ==
    /\ thread[t] = "job" \/ thread'[t] = "job"
    /\ thread'[t] # thread[t] \/ Moves(t)

C22_InvocationsLeaveSchedulerState ==
    [][((\E u \in Users : TriggerStep(u)) \/ (\E t \in Pollers : JobStep(t)))
          => /\ running' = running
             /\ scheduler_thread' = scheduler_thread
             /\ Entries(jobs') = Entries(jobs)]_vars

\* while the scheduler is running, a manual full-pipeline trigger has
\* returned the record of an exception and run_full_pipeline has raised
\* inside a scheduled job
C22_Witness ==
    /\ running
    /\ scheduler_thread # "None"
    /\ result["main"].returned
    /\ "error" \in result["main"].keys
    /\ \E t \in Pollers : thread[t] = "job" /\ pc[t] = "raised"

(***************************************************************************)
(* The threads of SpecLifecycle under fair scheduling: a Thread object     *)
(* that was started keeps executing _run_scheduler, the job it runs        *)
(* terminates, and a thread inside stop_scheduler keeps executing it.      *)
(* Whether a user thread calls start_scheduler or stop_scheduler at all is *)
(* left open.                                                              *)
(***************************************************************************)
FairLifecycle ==
    /\ SpecLifecycle
    /\ \A t \in Pollers :
          /\ WF_vars(Poll67(t))
          /\ WF_vars(Poll68(t))
          /\ WF_vars(RunJob(t))
          /\ WF_vars(Train(t))
          /\ WF_vars(JobEnd(t))
          /\ WF_vars(Poll69(t))
    /\ \A u \in Users :
          /\ WF_vars(Start54(u))
          /\ WF_vars(Start55(u))
          /\ WF_vars(Start57(u))
          /\ WF_vars(Stop62(u))
          /\ WF_vars(Stop63(u))

(***************************************************************************)
(* C29: under fair scheduling and provided every job invocation            *)
(* terminates, every stop_scheduler call eventually returns with           *)
(* running == false, after the poller has made at most one further         *)
(* due-entry check since the stop signal was set; this holds also when the *)
(* scheduler was never started or was already stopped, where               *)
(* stop_scheduler returns without blocking.                                *)
(***************************************************************************)
\* thread u is inside stop_scheduler
Stopping(u) == at[u] \in {"l62", "l63"}

\* this step ends the stop_scheduler call of u, by a return or by the
\* RuntimeError of join()
StopEnds(u) == Stopping(u) /\ at'[u] = "idle"

\* the Thread objects that were alive when the stop_scheduler call of u set
\* the stop signal check the due entries at most once more: one that was
\* about to test self.running does not check them again
NoFurtherCheck(u) ==
    \A t \in seen[u] :
        (thread[t] = "l67" /\ thread'[t] # "l67") => thread'[t] = "exited"

C29_StopReturnsStopped ==
    /\ \A u \in Users : Stopping(u) ~> Idle(u)
    /\ [][\A u \in Users :
            /\ StopEnds(u) => (StopReturns(u) /\ ~running')
            /\ Stopping(u) => NoFurtherCheck(u)]_vars

(***************************************************************************)
(* Two PipelineScheduler instances in one process, used by one thread: the *)
(* one main.py constructs ("scheduler") and a second one ("peer").  Both   *)
(* register through schedule.every() and poll through                      *)
(* schedule.run_pending(), which work on schedule.jobs, the list of the    *)
(* module's default scheduler.  Entries are added through both instances,  *)
(* both are asked for the list of jobs, and the second one is started and  *)
(* stopped.                                                                *)
(***************************************************************************)
\* an identity the Thread object the second instance creates can take
PeerFree(t) ==
    /\ thread[t] \in {"none", "exited"}
    /\ \A u \in Users : joining[u] # t
    /\ scheduler_thread # t

\* schedule_hourly_monitoring of the second instance
peer_schedule_hourly_monitoring(u) ==
    /\ MayCall(u, "schedule_hourly_monitoring")
    /\ Room
    /\ AddJob([Job("hours", "None", <<>>, "_run_monitoring_job")
                  EXCEPT !.self = "peer"])
    /\ command' = Returned
    /\ UNCHANGED <<store, exit_code, locals, lifecycle, manual>>

\* start_scheduler of the second instance, lines 50-57; its one caller stops
\* it (and so joins its thread) before it starts it again
peer_start_scheduler(u) ==
    /\ MayCall(u, "start_scheduler")
    /\ IF peer.running
       THEN UNCHANGED <<peer, thread>>
       ELSE \E t \in Pollers :
               /\ PeerFree(t)
               /\ \A t2 \in Pollers : PeerFree(t2) => Rank[t] <= Rank[t2]
               /\ peer' = [running |-> TRUE, scheduler_thread |-> t]
               /\ thread' = [thread EXCEPT ![t] = "l67"]
    /\ UNCHANGED <<cfgFile, listed, classes, orch, docs, pairs, registry,
                   registered, now>>
    /\ UNCHANGED <<running, scheduler_thread, pending, cur, at, joining, seen,
                   inflight, orphans>>
    /\ UNCHANGED <<jobs, manual, process, locals>>

\* stop_scheduler of the second instance, lines 61-63: the join itself is
\* Stop63
peer_stop_scheduler(u) ==
    /\ MayCall(u, "stop_scheduler")
    /\ peer' = [peer EXCEPT !.running = FALSE]
    /\ IF peer.scheduler_thread = "None"
       THEN UNCHANGED <<at, joining>>
       ELSE /\ at' = [at EXCEPT ![u] = "l63"]
            /\ joining' = [joining EXCEPT ![u] = peer.scheduler_thread]
    /\ UNCHANGED <<cfgFile, listed, classes, orch, docs, pairs, registry,
                   registered, now>>
    /\ UNCHANGED <<running, scheduler_thread, thread, pending, cur, seen,
                   inflight, orphans>>
    /\ UNCHANGED <<jobs, manual, process, locals>>

\* get_scheduled_jobs called on instance inst: one record per entry of
\* schedule.jobs, with the bound method and the unit of the entry
get_scheduled_jobs(inst) ==
    [i \in 1..Len(jobs) |->
        [job |-> <<jobs[i].self, jobs[i].job_func>>, unit |-> jobs[i].unit]]

\* thread u calls get_scheduled_jobs of instance inst
ListJobs(u, inst) ==
    /\ Idle(u)
    /\ command = "any"
    /\ listed' = [instance |-> inst, jobs |-> get_scheduled_jobs(inst)]
    /\ UNCHANGED <<cfgFile, peer, classes, orch, docs, pairs, registry,
                   registered, now>>
    /\ UNCHANGED <<sched, process, locals>>

InitShared ==
    /\ InitDeployStore
    /\ InitProcess
    /\ InitLocals
    /\ InitScheduler
    /\ jobs = <<>>

NextShared ==
    \/ \E u \in Callers :
        \/ schedule_hourly_monitoring(u)
        \/ peer_schedule_hourly_monitoring(u)
        \/ Stop63(u)
        \/ peer_start_scheduler(u)
        \/ peer_stop_scheduler(u)
        \/ \E inst \in Instances : ListJobs(u, inst)
    \/ \E t \in Pollers :
        \/ Poll67(t)
        \/ Poll68(t)
        \/ RunJob(t)
        \/ JobEnd(t)
        \/ Poll69(t)
    \/ \E i \in 1..MaxJobs : BecomeDue(i)

SpecShared == InitShared /\ [][NextShared]_vars

(***************************************************************************)
(* C30: the job registry is shared by all PipelineScheduler instances of a *)
(* process and is not cleared by stop_scheduler: an entry added through    *)
(* one instance is fired by the poller of any other running instance and   *)
(* is listed by every instance's get_scheduled_jobs, and entries added     *)
(* before a stop are still present and fire again after a later            *)
(* start_scheduler.                                                        *)
(***************************************************************************)
\* this step is the collection of the runnable jobs by run_pending in t
Checks(t) == thread[t] = "l68" /\ thread'[t] = "run_pending"

\* this step is a get_scheduled_jobs call
Lists == listed' # listed

\* this step is one of a start_scheduler or stop_scheduler call
LifecycleStep == <<running, scheduler_thread, peer, at>>' #
                 <<running, scheduler_thread, peer, at>>

\* whichever instance polls, it collects every due entry, also those bound
\* to the other instance, before a stop and after a later start alike;
\* whichever instance lists, it lists every entry; no step of start or stop
\* changes the registry
C30_SharedJobRegistry ==
    [][/\ \A t \in Pollers :
             Checks(t) => \A i \in 1..Len(jobs) : jobs[i].due => i \in pending'[t]
       /\ Lists => /\ Len(listed'.jobs) = Len(jobs)
                   /\ \A i \in 1..Len(jobs) :
                         listed'.jobs[i].job = <<jobs[i].self, jobs[i].job_func>>
       /\ LifecycleStep => jobs' = jobs]_vars

\* the poller of one instance runs an entry added through the other, which
\* the latest get_scheduled_jobs call, made on the polling instance, listed
C30_Witness ==
    /\ \E t \in Pollers :
          /\ thread[t] = "job"
          /\ jobs[cur[t]].self # InstanceOf(t)
          /\ listed.instance = InstanceOf(t)
          /\ \E i \in 1..Len(listed.jobs) :
                listed.jobs[i].job[1] # InstanceOf(t)

(***************************************************************************)
(* DataCleaner.is_duplicate of src/data_processing/data_cleaner.py, called *)
(* on one instance.                                                        *)
(***************************************************************************)
\* the texts is_duplicate is called with: three texts of
\* src/tests/test_pipeline.py and two texts of 72 ASCII letters and digits
\* that differ in their 22nd character
Texts == {"This is a test text",
          "This is a different text",
          "xyz",
          "TEXTCOLLBYfGiJUETHQ4hAcKSMd5zYpgqf1YRDhkmxHkhPWptrkoyz28wnI9V0aHeAuaKnak",
          "TEXTCOLLBYfGiJUETHQ4hEcKSMd5zYpgqf1YRDhkmxHkhPWptrkoyz28wnI9V0aHeAuaKnak"}

\* hashlib.md5(text.encode()).hexdigest(), line 24
md5(text) ==
    CASE text = "This is a test text" -> "734ab464c2b2c5803ff1b2d94729a6b5"
      [] text = "This is a different text" -> "5b83a4cbb1fa1f81e812934ca5483b0c"
      [] text = "xyz" -> "d16fb36f0911f878998c136191af705e"
      [] text = "TEXTCOLLBYfGiJUETHQ4hAcKSMd5zYpgqf1YRDhkmxHkhPWptrkoyz28wnI9V0aHeAuaKnak"
            -> "faad49866e9498fc1719f5289e7a0269"
      [] text = "TEXTCOLLBYfGiJUETHQ4hEcKSMd5zYpgqf1YRDhkmxHkhPWptrkoyz28wnI9V0aHeAuaKnak"
            -> "faad49866e9498fc1719f5289e7a0269"

\* is_duplicate(text), lines 23-30
is_duplicate(text) ==
    /\ seen_hashes' = seen_hashes \cup {md5(text)}
    /\ called' = called \cup {text}
    /\ dup' = [call |-> "is_duplicate", text |-> text,
               first |-> text \notin called,
               result |-> md5(text) \in seen_hashes]
    /\ UNCHANGED <<cfgFile, peer, listed, registry_file, regs, got>>
    /\ UNCHANGED <<orch, docs, pairs, registry, registered, now>>
    /\ UNCHANGED <<sched, process, locals>>

\* a DataCleaner has been constructed; nothing else runs
InitCleaner ==
    /\ InitDeployStore
    /\ InitProcess
    /\ InitLocals
    /\ InitScheduler
    /\ jobs = <<>>

NextCleaner == \E text \in Texts : is_duplicate(text)

SpecCleaner == InitCleaner /\ [][NextCleaner]_vars

(***************************************************************************)
(* C24: on one DataCleaner instance, for every sequence of is_duplicate    *)
(* calls, is_duplicate(t) returns false exactly on the first call with     *)
(* text t and true on every later call with the same text, independently   *)
(* of the calls made with other texts.                                     *)
(***************************************************************************)
C24_DuplicateExactlyOnRepeat ==
    dup.call = "is_duplicate" => (dup.result <=> ~dup.first)

(***************************************************************************)
(* ModelRegistry of src/deployment/model_registry.py, used by one caller:  *)
(* register_model and get_model on registry.json.                          *)
(***************************************************************************)
\* the arguments of src/tests/test_pipeline.py's TestModelRegistry, and
\* "latest" as a version, which is get_model's default
Names == {"model1", "model2"}
Versions == {"latest", "v1.0"}
Paths == {"/path1", "/path2"}

\* a key or a value of a metadata dict: its Python type and its text
Obj(type, repr) == [type |-> type, repr |-> repr]

\* a dict as the set of its items
Dict(key, value) == {[key |-> key, value |-> value]}

\* the metadata argument, a dict (kind "None": the default, None):
\* {"test": "metadata"}, {1: "a"} and {"at": datetime(2024, 1, 1)}
Metadata ==
    {[kind |-> "dict", items |-> Dict(Obj("str", "test"), Obj("str", "metadata"))],
     [kind |-> "dict", items |-> Dict(Obj("int", "1"), Obj("str", "a"))],
     [kind |-> "dict", items |-> Dict(Obj("str", "at"), Obj("datetime", "2024-01-01"))]}

\* metadata or {}, line 43
OrEmpty(metadata) == IF metadata.kind = "None" THEN {} ELSE metadata.items

\* what json.dump accepts as a value: str, not datetime
Serialisable(items) == \A it \in items : it.value.type = "str"

\* json.load of what json.dump wrote of a dict: every key is a str
AsJson(items) ==
    {[key |-> Obj("str", it.key.repr), value |-> it.value] : it \in items}

\* Python's order of the version strings, ascending: "l" < "v"
VersionOrder == <<"latest", "v1.0">>

VersionRank(v) == CHOOSE i \in 1..Len(VersionOrder) : VersionOrder[i] = v

\* max(versions), line 63
max(versions) == CHOOSE v \in versions : \A w \in versions : VersionRank(w) <= VersionRank(v)

\* _load_registry, lines 18-24: {} when registry.json does not parse
_load_registry ==
    IF registry_file.kind = "json" THEN registry_file.content ELSE Empty

\* whether json.dump(registry, f), line 29, writes the whole mapping
Dumps(reg) ==
    \A n \in DOMAIN reg : \A v \in DOMAIN reg[n] : Serialisable(reg[n][v].metadata)

\* _save_registry, lines 26-29: open(..., 'w') truncates registry.json, and
\* json.dump raises TypeError after writing a part of the mapping
_save_registry(reg) ==
    IF Dumps(reg)
    THEN [kind |-> "json",
          content |-> [n \in DOMAIN reg |-> [v \in DOMAIN reg[n] |->
                         [reg[n][v] EXCEPT !.metadata = AsJson(@)]]]]
    ELSE [kind |-> "truncated", content |-> Empty]

\* f"{model_name}:{version}", line 39
model_id(model_name, ver) == model_name \o ":" \o ver

\* register_model(model_name, version, model_path, metadata), lines 31-49
register_model(model_name, ver, model_path, metadata) ==
    LET read == _load_registry
        named == IF model_name \in DOMAIN read
                 THEN read
                 ELSE (model_name :> Empty) @@ read
        info == [model_path |-> model_path,
                 metadata |-> OrEmpty(metadata),
                 status |-> "registered"]
        reg == [named EXCEPT ![model_name] = (ver :> info) @@ @]
    IN /\ registry_file' = _save_registry(reg)
       /\ got' = IF Dumps(reg)
                 THEN [call |-> "register_model", model_name |-> model_name,
                       version |-> ver, outcome |-> "returned",
                       result |-> model_id(model_name, ver)]
                 ELSE [call |-> "register_model", model_name |-> model_name,
                       version |-> ver, outcome |-> "TypeError"]
       /\ regs' = IF Dumps(reg)
                  THEN (<<model_name, ver>> :>
                           [model_path |-> model_path,
                            metadata |-> OrEmpty(metadata)]) @@ regs
                  ELSE regs
       /\ UNCHANGED <<cfgFile, peer, listed, seen_hashes, called, dup>>
       /\ UNCHANGED <<orch, docs, pairs, registry, registered, now>>
       /\ UNCHANGED <<sched, process, locals>>

\* get_model(model_name, version), lines 51-68
get_model(model_name, ver) ==
    LET read == _load_registry
        looked == IF ver = "latest" /\ model_name \in DOMAIN read
                     /\ DOMAIN read[model_name] # {}
                  THEN max(DOMAIN read[model_name])
                  ELSE ver
        found == /\ model_name \in DOMAIN read
                 /\ looked \in DOMAIN read[model_name]
    IN /\ got' = IF found
                 THEN [call |-> "get_model", model_name |-> model_name,
                       version |-> ver, outcome |-> "returned",
                       result |-> read[model_name][looked]]
                 ELSE [call |-> "get_model", model_name |-> model_name,
                       version |-> ver, outcome |-> "ValueError"]
       /\ UNCHANGED <<cfgFile, peer, listed, seen_hashes, called, dup>>
       /\ UNCHANGED <<registry_file, regs>>
       /\ UNCHANGED <<orch, docs, pairs, registry, registered, now>>
       /\ UNCHANGED <<sched, process, locals>>

InitModels ==
    /\ InitDeployStore
    /\ InitProcess
    /\ InitLocals
    /\ InitScheduler
    /\ jobs = <<>>

RegisterModel ==
    \E n \in Names, v \in Versions, p \in Paths, md \in Metadata :
        register_model(n, v, p, md)

GetModel == \E n \in Names, v \in Versions : get_model(n, v)

NextModels == RegisterModel \/ GetModel

SpecModels == InitModels /\ [][NextModels]_vars

\* C23: register_model returns "<name>:<version>" whatever it is given, and
\* a get_model(name, version) after it returns a record with the path and
\* the metadata of the latest registration of that name and version,
\* whichever other names and versions were registered in between
C23_RegisterThenGet ==
    /\ got.call = "register_model" =>
          /\ got.outcome = "returned"
          /\ got.result = got.model_name \o ":" \o got.version
    /\ got.call = "get_model" /\ <<got.model_name, got.version>> \in DOMAIN regs =>
          /\ got.outcome = "returned"
          /\ got.result.model_path = regs[<<got.model_name, got.version>>].model_path
          /\ got.result.metadata = regs[<<got.model_name, got.version>>].metadata

=============================================================================
